---- MODULE Spec2Model ----
(***************************************************************************)
(* Model of the search / recommendation core of the fashion platform       *)
(* (search.py, database.py).  One request at a time runs through the       *)
(* pipeline of text_search, image_search or get_outfit_recommendations;    *)
(* the language model, the similarity index and the product store are the  *)
(* environment, each call to them having every outcome the service can     *)
(* produce (an exception, or a value drawn from a bounded family).         *)
(***************************************************************************)
EXTENDS Integers, Sequences, FiniteSets, TLC

(* ------------------------------ bounds --------------------------------- *)

\* Number of products the similarity index holds (identifiers 1..CorpusSize).
CorpusSize == 52

\* Identifiers 1..StaleIds are in the index but absent from the stale table.
StaleIds == 3

\* Length of the short, non-empty match sets the index is made to return.
SmallMatch == 2

\* A caller-supplied result_limit far above the cap.
LargeLimit == 1000

\* The language model fills in at most this many constraint fields.
MaxFields == 2

\* Worker threads of the serving process.
NumThreads == 2

\* Turns a session's conversation is let grow to.
MaxTurns == 4

(* ------------------------- program constants --------------------------- *)

\* min(n_results, 50) in text_search.
QueryLimitCap == 50

\* n_results: int = 12, and the value the route layer passes.
DefaultLimit == 12

\* n_results=6 and product_ids[:6] in get_outfit_recommendations.
OutfitLimit == 6

\* products[:4] handed to generate_fashion_advice.
AdviceDigest == 4

(* --------------------------- Python values ----------------------------- *)

\* Optional values: None is the empty tuple, a present value v is <<v>>.
None == <<>>

Some(v) == <<v>>

\* Python truthiness of an optional string ("" and None are falsy).
TruthyStr(x) == x # None /\ x[1] # ""

\* Python truthiness of an optional integer (0 and None are falsy).
TruthyInt(x) == x # None /\ x[1] # 0

Min(a, b) == IF a <= b THEN a ELSE b

Range(s) == {s[i] : i \in 1..Len(s)}

\* s[:n]
Take(s, n) == SubSeq(s, 1, Min(n, Len(s)))

\* str(product_id) as ingestion writes the index identifiers.
Str(i) == <<"str", i>>

\* int(pid)
IntOf(s) == s[2]

(* ------------------- language-model completion service ----------------- *)

\* The raw queries a request carries.
Queries == {"blue formal shirts under 2000", "party wear"}

\* A Filter Set: the JSON object the prompt of parse_query_with_gemini asks for.
\* A key the model leaves out reads as None under dict.get, like a JSON null.
AllFilterSets ==
    [search_text : {None, Some("blue formal shirts")},
     max_price : {None, Some(0), Some(2000)},
     min_price : {None, Some(0), Some(500)},
     gender : {None, Some("Men")},
     color : {None, Some("Blue")},
     usage : {None, Some("Formal")},
     product_type : {None, Some("Shirts")},
     category : {None, Some("Apparel")}]

\* Number of constraint fields (all but search_text) that are not None.
NonNullCount(f) ==
    Cardinality({k \in {"max_price", "min_price", "gender", "color", "usage",
                        "product_type", "category"} : f[k] # None})

\* The Filter Sets the language model is made to answer with.
LLMFilterSets == {f \in AllFilterSets : NonNullCount(f) <= MaxFields}

\* A parsed JSON value: its shape and, for an object, its fields.
JsonDict(o) == [kind |-> "dict", obj |-> Some(o)]

JsonOther(k) == [kind |-> k, obj |-> None]

\* What the text of a completion holds once any code fence is removed:
\* nothing, text that is not JSON, or a JSON document.
ParseBodies ==
    {JsonOther(k) : k \in {"empty", "malformed", "null", "list", "scalar"}}
        \cup {JsonDict(f) : f \in LLMFilterSets}

\* The outcomes of one completion request of _generate: building the client
\* fails, the request fails (or response.text is None), or text comes back,
\* wrapped in a ```json fence or not.
CompletionOutcomes(bodies) ==
    {[status |-> s, text |-> None] : s \in {"client_error", "call_error"}}
        \cup {[status |-> "text", text |-> Some([fenced |-> fc, body |-> b])] :
                fc \in BOOLEAN, b \in bodies}

\* _get_gemini: the client is built on first use and kept; a failed
\* construction leaves the global None.
GetGemini(client, outcome) ==
    IF client = "None" /\ outcome.status = "client_error" THEN "None" ELSE "client"

\* A client that exists cannot fail to be built.
OutcomePossible(client, outcome) ==
    outcome.status = "client_error" => client = "None"

\* re.sub(r"```json\s*|\s*```", "", text).strip()
StripFences(t) == [t EXCEPT !.fenced = FALSE]

\* Whether json.loads(text) returns (it raises on a fence, on empty text and
\* on text that is not JSON).
JsonParses(t) == ~t.fenced /\ t.body.kind \notin {"empty", "malformed"}

\* json.loads(text) where it returns.
JsonLoads(t) == t.body

\* The dict of the except branch of parse_query_with_gemini.
DegradedFilters(q) ==
    JsonDict([search_text |-> Some(q), max_price |-> None, min_price |-> None,
              gender |-> None, color |-> None, usage |-> None,
              product_type |-> None, category |-> None])

\* parse_query_with_gemini: the loaded JSON value whatever its shape, the
\* degraded dict when _generate or json.loads raises.
parse_query_with_gemini(q, outcome) ==
    IF outcome.status # "text"
    THEN DegradedFilters(q)
    ELSE LET text == StripFences(outcome.text[1])
         IN  IF JsonParses(text) THEN JsonLoads(text) ELSE DegradedFilters(q)

(* ----------------------------- filter compiler ------------------------- *)

\* One condition {field: {op: value}}; str or num holds the value.
Cond(f, o, s, n) == [field |-> f, op |-> o, str |-> s, num |-> n]

EqCond(f, v) == IF TruthyStr(v) THEN <<Cond(f, "$eq", v[1], 0)>> ELSE <<>>

EmptyWhere == [kind |-> "empty", conds |-> <<>>]

\* build_chroma_where: a condition per truthy field, in the order of the ifs.
build_chroma_where(f) ==
    LET conditions ==
            EqCond("Gender", f.gender) \o EqCond("Colour", f.color)
                \o EqCond("Usage", f.usage)
                \o EqCond("ProductType", f.product_type)
                \o EqCond("Category", f.category)
                \o (IF TruthyInt(f.max_price)
                    THEN <<Cond("Price", "$lte", "", f.max_price[1])>> ELSE <<>>)
                \o (IF TruthyInt(f.min_price)
                    THEN <<Cond("Price", "$gte", "", f.min_price[1])>> ELSE <<>>)
    IN  IF Len(conditions) = 0 THEN EmptyWhere
        ELSE IF Len(conditions) = 1 THEN [kind |-> "single", conds |-> conditions]
        ELSE [kind |-> "and", conds |-> conditions]

(* ------------------------------ product store -------------------------- *)

\* The products table in rowid order: every product, or a table that lacks
\* the first StaleIds products the index still holds.
FullTable == [i \in 1..CorpusSize |-> i]

StaleTable == [i \in 1..(CorpusSize - StaleIds) |-> i + StaleIds]

Tables == {FullTable, StaleTable}

\* A row of the table: the columns the core reads, fixed per identifier.
ProductRow(i) ==
    [ProductId |-> i,
     SubCategory |-> <<"Topwear", "Bottomwear", "Shoes", "Watches">>[(i % 4) + 1],
     Gender |-> IF i % 2 = 0 THEN "Men" ELSE "Women",
     Usage |-> "Casual",
     Colour |-> "Blue"]

\* get_products_by_ids: SELECT ... WHERE ProductId IN (...) with no ORDER BY
\* over a table with no index: the matching rows in table order.
get_products_by_ids(table, product_ids) ==
    IF product_ids = <<>>
    THEN <<>>
    ELSE LET wanted == {IntOf(pid) : pid \in Range(product_ids)}
         IN  SelectSeq(table, LAMBDA r : r \in wanted)

\* A lookup by WHERE ProductId >= ?: the first row at or after the identifier.
get_product_by_id_at_or_after(table, product_id) ==
    LET rows == SelectSeq(table, LAMBDA r : r >= product_id)
    IN  IF rows # <<>> THEN Some(ProductRow(rows[1])) ELSE None

\* get_product_by_id: the row, or None.
get_product_by_id(table, product_id) ==
    IF product_id \in Range(table) THEN Some(ProductRow(product_id)) ELSE None

(* ----------------------------- similarity index ------------------------ *)

\* Rankings of the corpus by distance to a query text.
Rankings == {[i \in 1..CorpusSize |-> Str(i)],
             [i \in 1..CorpusSize |-> Str(CorpusSize + 1 - i)]}

\* The match-set lengths the index answers with: none, a few, or all it may.
MatchLens(limit) ==
    {k \in {0, SmallMatch, Min(limit, CorpusSize)} : k <= Min(limit, CorpusSize)}

\* collection.query(query_texts, n_results, where): it raises, or returns at
\* most n_results identifiers, most similar first.
IndexOutcomes(limit) ==
    {[ok |-> FALSE, ids |-> <<>>]}
        \cup {[ok |-> TRUE, ids |-> Take(r, k)] : r \in Rankings, k \in MatchLens(limit)}

(* ------------------------------- the state ----------------------------- *)

VARIABLES
    gemini_client,      \* search._gemini_client: "None" or "client"
    chroma_collection,  \* search._chroma_collection: "None" or "collection"
    store,              \* the products table of fashion.db
    pc,                 \* where the running request stands; "idle" between requests
    op,                 \* the core function running: "text", "image", "outfit"
    query,              \* text_search: query
    n_results,          \* text_search, image_search: n_results
    product_id,         \* get_outfit_recommendations: product_id
    filters,            \* text_search, image_search: filters
    analysis,           \* image_search: analysis
    search_text,        \* text_search, image_search: search_text
    where_clause,       \* text_search, image_search: where_clause
    queries,            \* the collection.query calls issued, in order
    results,            \* results["ids"][0]
    product,            \* get_outfit_recommendations: product
    products,           \* products: the rows, each named by its ProductId
    ret,                \* the value returned to the caller, None until then
    raised,             \* the exception that left the function, "" if none
    completions,        \* the completion requests issued: purpose and outcome
    threads,            \* per worker thread: its place in _get_gemini / _get_collection
    live,               \* which constructed instance each global refers to, 0 for None
    built,              \* how many instances of each client were constructed
    cookie,             \* session["conversation"] as the session cookie stores it
    handler             \* the route handler of app.py that is running

vars == <<gemini_client, chroma_collection, store, pc, op, query, n_results,
          product_id, filters, analysis, search_text, where_clause, queries,
          results, product, products, ret, raised, completions,
          threads, live, built, cookie, handler>>

\* The state outside one run of the core pipeline.
outside_core == <<threads, live, built, cookie, handler>>

globals == <<gemini_client, chroma_collection, store>>

request == <<op, query, n_results, product_id>>

Unset == JsonOther("unset")

\* The locals of a request before it runs.
LocalsReset ==
    /\ filters = Unset
    /\ analysis = Unset
    /\ search_text = ""
    /\ where_clause = EmptyWhere
    /\ queries = <<>>
    /\ results = <<>>
    /\ product = None
    /\ products = <<>>
    /\ ret = None
    /\ raised = ""
    /\ completions = <<>>

\* The worker threads, and the two lazy getters they run.
Threads == 1..NumThreads

Getters == {"gemini", "collection"}

\* A thread outside the getters, holding no instance yet.
ThreadIdle ==
    [pc |-> "idle", fn |-> "none", local |-> 0,
     got |-> [f \in Getters |-> 0]]

\* No route handler is running.
HandlerIdle ==
    [route |-> "none", pc |-> "idle", query |-> "", loaded |-> None,
     session |-> None, modified |-> FALSE, advice |-> "", status |-> 0]

Init ==
    /\ threads = [t \in Threads |-> ThreadIdle]
    /\ live = [f \in Getters |-> 0]
    /\ built = [f \in Getters |-> 0]
    /\ cookie = None
    /\ handler = HandlerIdle
    /\ gemini_client = "None"
    /\ chroma_collection = "None"
    /\ store \in Tables
    /\ pc = "idle"
    /\ op = "none"
    /\ query = ""
    /\ n_results = 0
    /\ product_id = 0
    /\ LocalsReset

\* An exception leaves the running function.
Raise(e) == raised' = e /\ pc' = "done"

\* The function returns value.
Return(value) == ret' = Some(value) /\ pc' = "done"

\* _get_collection: the collection is opened on first use and kept; opening
\* can fail only while the global is None, and then leaves it None.
GetCollectionOutcomes == IF chroma_collection = "None" THEN BOOLEAN ELSE {TRUE}

\* One collection.query call as the log keeps it.
QueryCall(text, limit, where, ok) ==
    [text |-> text, n_results |-> limit, where |-> where, ok |-> ok]

\* An advice text: a fixed string, the model's words, or a template filled
\* with a count and the query.
Advice(kind, text, count, q) == [kind |-> kind, text |-> text, count |-> count, query |-> q]

Fixed(text) == Advice("fixed", text, 0, "")

\* The outcomes of a completion request for prose.
ProseOutcomes ==
    {[status |-> s, text |-> None] : s \in {"client_error", "call_error"}}
        \cup {[status |-> "text", text |-> Some("generated styling advice")]}

\* One completion request as the log keeps it.
Completion(purpose, outcome) == [purpose |-> purpose, outcome |-> outcome]

\* No completion request was made.
NoCompletion == [status |-> "none", text |-> None]

(* ------------------------------ text_search ---------------------------- *)

\* n_results=min(n_results, 50)
TextLimit(n) == Min(n, QueryLimitCap)

\* A retry that passes the where clause again.
RetryCallKeepsWhere(text, limit, where, ok) == QueryCall(text, limit, where, ok)

\* The query of the except branch: the same phrase and limit, no where.
RetryCall(text, limit, where, ok) == QueryCall(text, limit, EmptyWhere, ok)

\* generate_fashion_advice without its guard on an empty list.
AdviceAlwaysCompletes(prods) == TRUE

\* if not products, in generate_fashion_advice.
AdviceNeedsCompletion(prods) == prods # <<>>

\* The fixed advice of generate_fashion_advice for an empty product list.
NoProductsMessage == "I couldn't find products matching your query. Try different keywords!"

\* The fixed advice of text_search's early return on an empty match set.
NoMatchMessage == "No products found matching your query."

\* generate_fashion_advice, given the outcome of its completion request.
generate_fashion_advice(q, prods, outcome) ==
    IF ~AdviceNeedsCompletion(prods)
    THEN Fixed(NoProductsMessage)
    ELSE IF outcome.status = "text"
    THEN Advice("generated", outcome.text[1], 0, "")
    ELSE Advice("template",
                "Great picks! Here are {count} items that match '{query}'. These selections are curated based on your preferences.",
                Len(prods), q)

\* The dict text_search returns when the index matched nothing.
TextEmptyResult(fs) ==
    [products |-> <<>>,
     advice |-> Fixed(NoMatchMessage),
     filters |-> fs]

\* A result that reports only the constraints the last query applied.
TextResultAppliedFilters(prods, adv, fs, phrase) ==
    [products |-> prods, advice |-> adv,
     filters |-> IF Len(queries) = 2 THEN DegradedFilters(phrase) ELSE fs,
     search_text |-> phrase]

\* The dict text_search returns after the advice step.
TextResult(prods, adv, fs, phrase) ==
    [products |-> prods, advice |-> adv, filters |-> fs, search_text |-> phrase]

\* A caller starts text_search(query, n_results).
TextSearchCall ==
    /\ pc = "idle"
    /\ \E q \in Queries, n \in {DefaultLimit, LargeLimit} :
          /\ op' = "text"
          /\ query' = q
          /\ n_results' = n
    /\ pc' = "parse"
    /\ UNCHANGED <<outside_core, globals, product_id, filters, analysis, search_text,
                   where_clause, queries, results, product, products, ret,
                   raised, completions>>

\* Step 1: filters = parse_query_with_gemini(query);
\* search_text = filters.get("search_text") or query.
TextParse ==
    /\ pc = "parse" /\ op = "text"
    /\ \E o \in CompletionOutcomes(ParseBodies) :
          /\ OutcomePossible(gemini_client, o)
          /\ gemini_client' = GetGemini(gemini_client, o)
          /\ completions' = Append(completions, Completion("parse", o))
          /\ LET fs == parse_query_with_gemini(query, o)
             IN  /\ filters' = fs
                 /\ IF fs.kind = "dict"
                    THEN /\ search_text' = IF TruthyStr(fs.obj[1].search_text)
                                           THEN fs.obj[1].search_text[1]
                                           ELSE query
                         /\ pc' = "open"
                         /\ UNCHANGED raised
                    ELSE /\ Raise("AttributeError: filters.get")
                         /\ UNCHANGED search_text
    /\ UNCHANGED <<outside_core, chroma_collection, store, request, analysis, where_clause,
                   queries, results, product, products, ret>>

\* Step 2: collection = _get_collection(); where_clause = build_chroma_where(filters).
TextOpen ==
    /\ pc = "open" /\ op = "text"
    /\ \E opened \in GetCollectionOutcomes :
          IF opened
          THEN /\ chroma_collection' = "collection"
               /\ where_clause' = build_chroma_where(filters.obj[1])
               /\ pc' = "query"
               /\ UNCHANGED raised
          ELSE /\ Raise("_get_collection")
               /\ UNCHANGED <<chroma_collection, where_clause>>
    /\ UNCHANGED <<outside_core, gemini_client, store, request, filters, analysis, search_text,
                   queries, results, product, products, ret, completions>>

\* The try block: one collection.query with the where clause, if any.
TextQuery ==
    /\ pc = "query" /\ op = "text"
    /\ \E r \in IndexOutcomes(TextLimit(n_results)) :
          /\ queries' = Append(queries, QueryCall(search_text, TextLimit(n_results),
                                                  where_clause, r.ok))
          /\ IF r.ok
             THEN results' = r.ids /\ pc' = "fetch"
             ELSE pc' = "retry" /\ UNCHANGED results
    /\ UNCHANGED <<outside_core, globals, request, filters, analysis, search_text, where_clause,
                   product, products, ret, raised, completions>>

\* The except block: one collection.query without where; its own failure
\* leaves text_search.
TextRetry ==
    /\ pc = "retry" /\ op = "text"
    /\ \E r \in IndexOutcomes(TextLimit(n_results)) :
          /\ queries' = Append(queries, RetryCall(search_text, TextLimit(n_results),
                                                  where_clause, r.ok))
          /\ IF r.ok
             THEN results' = r.ids /\ pc' = "fetch" /\ UNCHANGED raised
             ELSE Raise("collection.query") /\ UNCHANGED results
    /\ UNCHANGED <<outside_core, globals, request, filters, analysis, search_text, where_clause,
                   product, products, ret, completions>>

\* Step 3: the early return on no match, else products = get_products_by_ids(product_ids).
TextFetch ==
    /\ pc = "fetch" /\ op = "text"
    /\ IF results = <<>>
       THEN /\ Return(TextEmptyResult(filters))
            /\ UNCHANGED <<products, raised>>
       ELSE \E stored \in BOOLEAN :
               IF stored
               THEN /\ products' = get_products_by_ids(store, results)
                    /\ pc' = "advise"
                    /\ UNCHANGED <<ret, raised>>
               ELSE /\ Raise("sqlite3")
                    /\ UNCHANGED <<products, ret>>
    /\ UNCHANGED <<outside_core, globals, request, filters, analysis, search_text, where_clause,
                   queries, results, product, completions>>

\* Step 4: advice = generate_fashion_advice(query, products[:4]) and the return.
TextAdvise ==
    /\ pc = "advise" /\ op = "text"
    /\ LET digest == Take(products, AdviceDigest)
       IN  IF AdviceNeedsCompletion(digest)
           THEN \E o \in ProseOutcomes :
                   /\ OutcomePossible(gemini_client, o)
                   /\ gemini_client' = GetGemini(gemini_client, o)
                   /\ completions' = Append(completions, Completion("advice", o))
                   /\ Return(TextResult(products,
                                        generate_fashion_advice(query, digest, o),
                                        filters, search_text))
           ELSE /\ Return(TextResult(products,
                                     generate_fashion_advice(query, digest, NoCompletion),
                                     filters, search_text))
                /\ UNCHANGED <<gemini_client, completions>>
    /\ UNCHANGED <<outside_core, chroma_collection, store, request, filters, analysis,
                   search_text, where_clause, queries, results, product,
                   products, raised>>

(* ------------------------------ image_search --------------------------- *)

\* The JSON object the vision prompt asks for, as far as the core reads it.
\* None stands for a key the model left out.
AnalysisObjs ==
    [description : {None, Some("red summer dress")},
     search_query : {None, Some("red dress women")},
     color : {None, Some("Red")},
     gender : {None, Some("Women"), Some("Unisex")}]

VisionBodies ==
    {JsonOther(k) : k \in {"empty", "malformed", "null", "list", "scalar"}}
        \cup {JsonDict(a) : a \in AnalysisObjs}

\* The analysis of the except branch of image_search.
FallbackAnalysis ==
    JsonDict([description |-> Some("clothing item"),
              search_query |-> Some("fashion clothing"),
              color |-> None, gender |-> None])

\* The try/except around _generate_with_image and json.loads.
AnalyzeImage(outcome) ==
    IF outcome.status # "text"
    THEN FallbackAnalysis
    ELSE LET text == StripFences(outcome.text[1])
         IN  IF JsonParses(text) THEN JsonLoads(text) ELSE FallbackAnalysis

\* analysis.get("search_query", analysis.get("description", "fashion"))
ImageSearchText(a) ==
    IF a.search_query # None THEN a.search_query[1]
    ELSE IF a.description # None THEN a.description[1]
    ELSE "fashion"

\* The filters dict image_search builds from the analysis.
ImageFilters(a) ==
    [search_text |-> None,
     gender |-> IF a.gender \notin {Some("Unisex"), None} THEN a.gender ELSE None,
     color |-> a.color,
     max_price |-> None, min_price |-> None, usage |-> None,
     product_type |-> None, category |-> None]

\* n_results=n_results: image_search passes the caller's limit as it is.
ImageLimit(n) == n

\* The dict image_search returns.
ImageResult(prods, a, phrase) ==
    [products |-> prods,
     advice |-> Advice("image",
                       IF a.obj[1].description # None
                       THEN a.obj[1].description[1] ELSE "a clothing item",
                       0, ""),
     analysis |-> a,
     search_text |-> phrase]

\* A caller starts image_search(image_bytes, n_results).
ImageSearchCall ==
    /\ pc = "idle"
    /\ op' = "image"
    /\ \E n \in {DefaultLimit, LargeLimit} : n_results' = n
    /\ pc' = "analyze"
    /\ UNCHANGED <<outside_core, globals, query, product_id, filters, analysis, search_text,
                   where_clause, queries, results, product, products, ret,
                   raised, completions>>

\* Step 1: the vision completion, its fallback, and search_text.
ImageAnalyze ==
    /\ pc = "analyze" /\ op = "image"
    /\ \E o \in CompletionOutcomes(VisionBodies) :
          /\ OutcomePossible(gemini_client, o)
          /\ gemini_client' = GetGemini(gemini_client, o)
          /\ completions' = Append(completions, Completion("vision", o))
          /\ LET a == AnalyzeImage(o)
             IN  /\ analysis' = a
                 /\ IF a.kind = "dict"
                    THEN /\ search_text' = ImageSearchText(a.obj[1])
                         /\ pc' = "open"
                         /\ UNCHANGED raised
                    ELSE /\ Raise("AttributeError: analysis.get")
                         /\ UNCHANGED search_text
    /\ UNCHANGED <<outside_core, chroma_collection, store, request, filters, where_clause,
                   queries, results, product, products, ret>>

\* Step 2: collection = _get_collection(); filters; where_clause.
ImageOpen ==
    /\ pc = "open" /\ op = "image"
    /\ \E opened \in GetCollectionOutcomes :
          IF opened
          THEN /\ chroma_collection' = "collection"
               /\ filters' = JsonDict(ImageFilters(analysis.obj[1]))
               /\ where_clause' = build_chroma_where(ImageFilters(analysis.obj[1]))
               /\ pc' = "query"
               /\ UNCHANGED raised
          ELSE /\ Raise("_get_collection")
               /\ UNCHANGED <<chroma_collection, filters, where_clause>>
    /\ UNCHANGED <<outside_core, gemini_client, store, request, analysis, search_text,
                   queries, results, product, products, ret, completions>>

\* The try block of image_search.
ImageQuery ==
    /\ pc = "query" /\ op = "image"
    /\ \E r \in IndexOutcomes(ImageLimit(n_results)) :
          /\ queries' = Append(queries, QueryCall(search_text, ImageLimit(n_results),
                                                  where_clause, r.ok))
          /\ IF r.ok
             THEN results' = r.ids /\ pc' = "fetch"
             ELSE pc' = "retry" /\ UNCHANGED results
    /\ UNCHANGED <<outside_core, globals, request, filters, analysis, search_text, where_clause,
                   product, products, ret, raised, completions>>

\* The except block of image_search.
ImageRetry ==
    /\ pc = "retry" /\ op = "image"
    /\ \E r \in IndexOutcomes(ImageLimit(n_results)) :
          /\ queries' = Append(queries, RetryCall(search_text, ImageLimit(n_results),
                                                  where_clause, r.ok))
          /\ IF r.ok
             THEN results' = r.ids /\ pc' = "fetch" /\ UNCHANGED raised
             ELSE Raise("collection.query") /\ UNCHANGED results
    /\ UNCHANGED <<outside_core, globals, request, filters, analysis, search_text, where_clause,
                   product, products, ret, completions>>

\* products = get_products_by_ids(product_ids); the fixed-form advice; return.
ImageFetch ==
    /\ pc = "fetch" /\ op = "image"
    /\ \E stored \in (IF results = <<>> THEN {TRUE} ELSE BOOLEAN) :
          IF stored
          THEN /\ products' = get_products_by_ids(store, results)
               /\ Return(ImageResult(products', analysis, search_text))
               /\ UNCHANGED raised
          ELSE /\ Raise("sqlite3")
               /\ UNCHANGED <<products, ret>>
    /\ UNCHANGED <<outside_core, globals, request, filters, analysis, search_text, where_clause,
                   queries, results, product, completions>>

(* ----------------------- get_outfit_recommendations -------------------- *)

\* The product identifiers a caller asks about: one per sub-category branch,
\* and one no table holds.
OutfitIds == 1..4 \cup {CorpusSize + 1}

\* The rule-based complementary query.
Complement(p) ==
    IF p.SubCategory \in {"Topwear"}
    THEN <<"bottoms jeans trousers for", p.Gender, p.Usage, p.Colour>>
    ELSE IF p.SubCategory \in {"Bottomwear"}
    THEN <<"tops shirts for", p.Gender, p.Usage>>
    ELSE IF p.SubCategory \in {"Footwear", "Flip Flops", "Shoes"}
    THEN <<"casual", p.Usage, "outfit for", p.Gender>>
    ELSE <<p.Usage, "fashion for", p.Gender>>

\* The match set passed on unfiltered.
ExcludeBaseKeepsAll(ids, base) == ids

\* [pid for pid in ids if pid != str(product_id)]
ExcludeBase(ids, base) == SelectSeq(ids, LAMBDA pid : pid # Str(base))

\* generate_outfit_advice, given the outcome of its completion request.
generate_outfit_advice(prods, outcome) ==
    IF prods = <<>>
    THEN Fixed("Complete your look with these complementary items!")
    ELSE IF outcome.status = "text"
    THEN Advice("generated", outcome.text[1], 0, "")
    ELSE Fixed("Complete your look with these perfectly matched items! Mix and match for a stylish outfit.")

\* The dict returned for a product the store does not hold.
NotFoundResult == [products |-> <<>>, advice |-> Fixed("Product not found.")]

OutfitResult(prods, adv, base) ==
    [products |-> prods, advice |-> adv, base_product |-> base]

\* A caller starts get_outfit_recommendations(product_id).
OutfitCall ==
    /\ pc = "idle"
    /\ op' = "outfit"
    /\ \E id \in OutfitIds : product_id' = id
    /\ pc' = "lookup"
    /\ UNCHANGED <<outside_core, globals, query, n_results, filters, analysis, search_text,
                   where_clause, queries, results, product, products, ret,
                   raised, completions>>

\* product = get_product_by_id(product_id) and the not-found return.
OutfitLookup ==
    /\ pc = "lookup" /\ op = "outfit"
    /\ \E stored \in BOOLEAN :
          IF stored
          THEN LET p == get_product_by_id(store, product_id)
               IN  /\ product' = p
                   /\ IF p = None
                      THEN Return(NotFoundResult)
                      ELSE pc' = "open" /\ UNCHANGED ret
                   /\ UNCHANGED raised
          ELSE /\ Raise("sqlite3")
               /\ UNCHANGED <<product, ret>>
    /\ UNCHANGED <<outside_core, globals, request, filters, analysis, search_text, where_clause,
                   queries, results, products, completions>>

\* collection = _get_collection()
OutfitOpen ==
    /\ pc = "open" /\ op = "outfit"
    /\ \E opened \in GetCollectionOutcomes :
          IF opened
          THEN /\ chroma_collection' = "collection"
               /\ pc' = "query"
               /\ UNCHANGED raised
          ELSE /\ Raise("_get_collection")
               /\ UNCHANGED chroma_collection
    /\ UNCHANGED <<outside_core, gemini_client, store, request, filters, analysis, search_text,
                   where_clause, queries, results, product, products, ret,
                   completions>>

\* The single collection.query, outside any try, filtered by gender only.
OutfitQuery ==
    /\ pc = "query" /\ op = "outfit"
    /\ \E r \in IndexOutcomes(OutfitLimit) :
          /\ queries' = Append(queries,
                               QueryCall(Complement(product[1]), OutfitLimit,
                                         [kind |-> "single",
                                          conds |-> <<Cond("Gender", "$eq",
                                                           product[1].Gender, 0)>>],
                                         r.ok))
          /\ IF r.ok
             THEN results' = r.ids /\ pc' = "fetch" /\ UNCHANGED raised
             ELSE Raise("collection.query") /\ UNCHANGED results
    /\ UNCHANGED <<outside_core, globals, request, filters, analysis, search_text, where_clause,
                   product, products, ret, completions>>

\* The base product is filtered out; products = get_products_by_ids(product_ids[:6]).
OutfitFetch ==
    /\ pc = "fetch" /\ op = "outfit"
    /\ LET product_ids == ExcludeBase(results, product_id)
       IN  \E stored \in (IF product_ids = <<>> THEN {TRUE} ELSE BOOLEAN) :
              IF stored
              THEN /\ products' = get_products_by_ids(store, Take(product_ids, OutfitLimit))
                   /\ pc' = "advise"
                   /\ UNCHANGED raised
              ELSE /\ Raise("sqlite3")
                   /\ UNCHANGED products
    /\ UNCHANGED <<outside_core, globals, request, filters, analysis, search_text, where_clause,
                   queries, results, product, ret, completions>>

\* advice = generate_outfit_advice(product, products) and the return.
OutfitAdvise ==
    /\ pc = "advise" /\ op = "outfit"
    /\ IF products # <<>>
       THEN \E o \in ProseOutcomes :
               /\ OutcomePossible(gemini_client, o)
               /\ gemini_client' = GetGemini(gemini_client, o)
               /\ completions' = Append(completions, Completion("outfit", o))
               /\ Return(OutfitResult(products, generate_outfit_advice(products, o),
                                      product[1]))
       ELSE /\ Return(OutfitResult(products,
                                   generate_outfit_advice(products, NoCompletion),
                                   product[1]))
            /\ UNCHANGED <<gemini_client, completions>>
    /\ UNCHANGED <<outside_core, chroma_collection, store, request, filters, analysis,
                   search_text, where_clause, queries, results, product,
                   products, raised>>

(* ------------------------------ the caller ----------------------------- *)

\* The call is over (a value or an exception reached the caller); the next
\* request starts with fresh locals and the same globals.
Finish ==
    /\ pc = "done"
    /\ pc' = "idle"
    /\ op' = "none"
    /\ query' = ""
    /\ n_results' = 0
    /\ product_id' = 0
    /\ filters' = Unset
    /\ analysis' = Unset
    /\ search_text' = ""
    /\ where_clause' = EmptyWhere
    /\ queries' = <<>>
    /\ results' = <<>>
    /\ product' = None
    /\ products' = <<>>
    /\ ret' = None
    /\ raised' = ""
    /\ completions' = <<>>
    /\ UNCHANGED <<outside_core, globals>>

Next ==
    \/ TextSearchCall
    \/ TextParse
    \/ TextOpen
    \/ TextQuery
    \/ TextRetry
    \/ TextFetch
    \/ TextAdvise
    \/ ImageSearchCall
    \/ ImageAnalyze
    \/ ImageOpen
    \/ ImageQuery
    \/ ImageRetry
    \/ ImageFetch
    \/ OutfitCall
    \/ OutfitLookup
    \/ OutfitOpen
    \/ OutfitQuery
    \/ OutfitFetch
    \/ OutfitAdvise
    \/ Finish

Spec == Init /\ [][Next]_vars

(* ------------------- the lazy getters under threads -------------------- *)

\* The variables the core pipeline and the route handlers own.
pipeline == <<store, pc, op, query, n_results, product_id, filters, analysis,
              search_text, where_clause, queries, results, product, products,
              ret, raised, completions, cookie, handler>>

\* The global a getter reads: _gemini_client or _chroma_collection.
GlobalOf(f) == IF f = "gemini" THEN gemini_client ELSE chroma_collection

\* Thread t enters _get_gemini() or _get_collection().
GetterCall(t) ==
    /\ threads[t].pc = "idle"
    /\ \E f \in Getters :
          threads' = [threads EXCEPT ![t].pc = "check", ![t].fn = f]
    /\ UNCHANGED <<pipeline, gemini_client, chroma_collection, live, built>>

\* if _gemini_client is None: / if _chroma_collection is None:
GetterCheck(t) ==
    /\ threads[t].pc = "check"
    /\ threads' = [threads EXCEPT ![t].pc = IF GlobalOf(threads[t].fn) = "None"
                                           THEN "construct" ELSE "return"]
    /\ UNCHANGED <<pipeline, gemini_client, chroma_collection, live, built>>

\* genai.Client(...) / client.get_collection(...): a new instance, or an
\* exception that leaves the getter.
GetterConstruct(t) ==
    /\ threads[t].pc = "construct"
    /\ LET f == threads[t].fn
       IN  \E ok \in BOOLEAN :
              IF ok
              THEN /\ built' = [built EXCEPT ![f] = @ + 1]
                   /\ threads' = [threads EXCEPT ![t].pc = "assign",
                                                 ![t].local = built[f] + 1]
              ELSE /\ threads' = [threads EXCEPT ![t].pc = "idle", ![t].fn = "none"]
                   /\ UNCHANGED built
    /\ UNCHANGED <<pipeline, gemini_client, chroma_collection, live>>

\* The store into the global: _gemini_client = ... / _chroma_collection = ...
GetterAssign(t) ==
    /\ threads[t].pc = "assign"
    /\ LET f == threads[t].fn
       IN  /\ live' = [live EXCEPT ![f] = threads[t].local]
           /\ IF f = "gemini"
              THEN gemini_client' = "client" /\ UNCHANGED chroma_collection
              ELSE chroma_collection' = "collection" /\ UNCHANGED gemini_client
    /\ threads' = [threads EXCEPT ![t].pc = "return", ![t].local = 0]
    /\ UNCHANGED <<pipeline, built>>

\* return _gemini_client / return _chroma_collection: the global as it is now.
GetterReturn(t) ==
    /\ threads[t].pc = "return"
    /\ threads' = [threads EXCEPT ![t].pc = "idle", ![t].fn = "none",
                                  ![t].got[threads[t].fn] = live[threads[t].fn]]
    /\ UNCHANGED <<pipeline, gemini_client, chroma_collection, live, built>>

NextThreads ==
    \/ \E t \in Threads : GetterCall(t)
    \/ \E t \in Threads : GetterCheck(t)
    \/ \E t \in Threads : GetterConstruct(t)
    \/ \E t \in Threads : GetterAssign(t)
    \/ \E t \in Threads : GetterReturn(t)

\* Requests served by several worker threads of one process.
SpecThreads == Init /\ [][NextThreads]_vars

(* ------------------------ the routes and the session ------------------- *)

\* Everything but the session cookie and the running handler.
outside_app == <<gemini_client, chroma_collection, store, pc, op, query,
                 n_results, product_id, filters, analysis, search_text,
                 where_clause, queries, results, product, products, ret,
                 raised, completions, threads, live, built>>

\* The "query" field of the posted JSON; a missing field reads as "".
RawQueries == Queries \cup {"", "   ", " party wear "}

\* str.strip() on the posted queries.
Strip(raw) ==
    CASE raw = "   " -> ""
      [] raw = " party wear " -> "party wear"
      [] OTHER -> raw

\* One entry of session["conversation"].
Turn(role, text) == [role |-> role, text |-> text]

\* The list under session["conversation"], empty when the key is absent.
Conversation(sess) == IF sess = None THEN <<>> ELSE sess[1]

\* What text_search(query, n_results=12) hands api_search: an exception, or a
\* result whose advice is one of the texts text_search composes.
TextSearchOutcomes ==
    {[raised |-> TRUE, advice |-> ""]}
        \cup {[raised |-> FALSE, advice |-> a] :
                a \in {NoMatchMessage, NoProductsMessage,
                       "generated styling advice",
                       "Great picks! Here are {count} items that match '{query}'. These selections are curated based on your preferences."}}

\* A request reaches a route: the session is opened from the cookie.
Open(route, q) ==
    [route |-> route, pc |-> "begin", query |-> q, loaded |-> cookie,
     session |-> cookie, modified |-> FALSE, advice |-> "", status |-> 0]

\* The handler has answered with this status.
Respond(status) == handler' = [handler EXCEPT !.pc = "done", !.status = status]

\* POST /api/search arrives with a JSON body.
ApiSearchRequest ==
    /\ handler.pc \in {"idle", "done"}
    /\ Len(Conversation(cookie)) + 2 <= MaxTurns
    /\ \E raw \in RawQueries : handler' = Open("search", Strip(raw))
    /\ UNCHANGED <<outside_app, cookie>>

\* api_search up to the call of text_search: the empty query is refused, and
\* otherwise the list is created if absent and the user turn appended.
ApiSearchBegin ==
    /\ handler.route = "search" /\ handler.pc = "begin"
    /\ IF handler.query = ""
       THEN Respond(400)
       ELSE handler' = [handler EXCEPT
                !.pc = "core",
                !.modified = (handler.session = None),
                !.session = Some(Append(Conversation(handler.session),
                                        Turn("user", handler.query)))]
    /\ UNCHANGED <<outside_app, cookie>>

\* result = text_search(query, n_results=12)
ApiSearchCore ==
    /\ handler.route = "search" /\ handler.pc = "core"
    /\ \E o \in TextSearchOutcomes :
          handler' = [handler EXCEPT !.pc = IF o.raised THEN "error" ELSE "finish",
                                     !.advice = o.advice]
    /\ UNCHANGED <<outside_app, cookie>>

\* api_search after text_search returned: the assistant turn is appended, the
\* session marked modified, and the response carries the saved session.
ApiSearchFinish ==
    /\ handler.route = "search" /\ handler.pc = "finish"
    /\ LET conv == Append(Conversation(handler.session),
                          Turn("assistant", handler.advice))
       IN  /\ handler' = [handler EXCEPT !.pc = "done", !.status = 200,
                                         !.session = Some(conv), !.modified = TRUE]
           /\ cookie' = Some(conv)
    /\ UNCHANGED outside_app

\* The exception of text_search leaves api_search.  With exceptions propagated
\* (debug) no response is finalised and the cookie stays; otherwise the 500
\* response saves the session if it was marked modified.
ApiSearchError ==
    /\ handler.route = "search" /\ handler.pc = "error"
    /\ \E propagate \in BOOLEAN :
          cookie' = IF ~propagate /\ handler.modified THEN handler.session ELSE cookie
    /\ Respond(500)
    /\ UNCHANGED outside_app

\* POST /api/image-search: no image, no file name, or the image_search call,
\* which returns or raises; the session is not touched.
ApiImageSearch ==
    /\ handler.pc \in {"idle", "done"}
    /\ \E status \in {400, 200, 500} :
          handler' = [Open("image", "") EXCEPT !.pc = "done", !.status = status]
    /\ UNCHANGED <<outside_app, cookie>>

\* GET /api/recommend/<product_id>: the session is not touched.
ApiRecommend ==
    /\ handler.pc \in {"idle", "done"}
    /\ \E status \in {200, 500} :
          handler' = [Open("recommend", "") EXCEPT !.pc = "done", !.status = status]
    /\ UNCHANGED <<outside_app, cookie>>

\* POST /api/conversation/clear: session.pop("conversation", None) marks the
\* session modified, and the saved session has no conversation key.
ClearConversation ==
    /\ handler.pc \in {"idle", "done"}
    /\ handler' = [Open("clear", "") EXCEPT !.pc = "done", !.status = 200,
                                            !.session = None, !.modified = TRUE]
    /\ cookie' = None
    /\ UNCHANGED outside_app

NextSession ==
    \/ ApiSearchRequest
    \/ ApiSearchBegin
    \/ ApiSearchCore
    \/ ApiSearchFinish
    \/ ApiSearchError
    \/ ApiImageSearch
    \/ ApiRecommend
    \/ ClearConversation

\* The requests of one browser session, one at a time.
SpecSession == Init /\ [][NextSession]_vars

(* ------------------------------- properties ---------------------------- *)

\* The call of text_search or image_search is over and returned a value.
Returned == pc = "done" /\ ret # None

\* The outcome of the request's first completion (the parse or vision call).
FirstOutcome == completions[1].outcome

\* A completion outcome that is a parse failure: the call raised, or its text
\* is empty, not JSON, or JSON that is not an object.
ParseFailure(o) ==
    \/ o.status # "text"
    \/ o.text[1].body.kind \in {"empty", "malformed", "null", "list", "scalar"}

\* C1: every call of text_search, image_search or get_outfit_recommendations
\* ends by returning a result with a products list and an advice text, never
\* by an exception reaching the caller, whatever the dependencies do.
C1_NeverRaises ==
    pc = "done" =>
        /\ raised = ""
        /\ ret # None
        /\ {"products", "advice"} \subseteq DOMAIN ret[1]

\* C2: whenever the completion of parse_query_with_gemini is a parse failure
\* (the call raised, empty text, malformed JSON, JSON of another shape than
\* an object), the Filter Set returned has the raw query as search phrase
\* and None in the other seven fields.
C2_DegradedOnFailure ==
    (op = "text" /\ pc # "parse" /\ ParseFailure(FirstOutcome))
        => filters = DegradedFilters(query)

\* C3: in text_search and image_search a failed first query is followed by
\* exactly one more query, with the same phrase and no predicate; a first
\* query that succeeds is followed by none; at most two queries are issued
\* and the first query's failure never reaches the caller.
C3_RetryOnce ==
    op \in {"text", "image"} =>
        /\ Len(queries) <= 2
        /\ Len(queries) = 2 =>
              /\ ~queries[1].ok
              /\ queries[2].text = queries[1].text
              /\ queries[2].where = EmptyWhere
        /\ (Len(queries) >= 1 /\ ~queries[1].ok /\ pc \in {"fetch", "advise", "done"})
              => Len(queries) = 2
        /\ raised = "collection.query" => (Len(queries) = 2 /\ ~queries[2].ok)

\* C3 witness: a text search whose first query carried a predicate and
\* failed, whose retry succeeded, and which returned.
C3_Witness ==
    /\ op = "text" /\ Returned
    /\ Len(queries) = 2
    /\ queries[1].where.kind # "empty"
    /\ ~queries[1].ok /\ queries[2].ok

\* The rows of table named by ids, in the order of ids.
InMatchOrder(table, ids) ==
    SelectSeq([i \in 1..Len(ids) |-> IntOf(ids[i])], LAMBDA r : r \in Range(table))

\* C4: the products of a search result are in the order of the match set
\* the index returned (most similar first), whatever order the store
\* returns the rows in.
C4_MatchOrder ==
    (op \in {"text", "image"} /\ Returned)
        => ret[1].products = InMatchOrder(store, results)

\* C5: every index query of text_search and image_search, the retry
\* included, asks for at most 50 matches, and no more than 50 come back.
C5_LimitCapped ==
    op \in {"text", "image"} =>
        /\ \A i \in 1..Len(queries) : queries[i].n_results <= QueryLimitCap
        /\ Len(results) <= QueryLimitCap

\* The predicate with one condition per field that is not None.
OnePerNonNull(f) ==
    LET eq(name, v) == IF v # None THEN <<Cond(name, "$eq", v[1], 0)>> ELSE <<>>
        conditions ==
            eq("Gender", f.gender) \o eq("Colour", f.color) \o eq("Usage", f.usage)
                \o eq("ProductType", f.product_type) \o eq("Category", f.category)
                \o (IF f.max_price # None
                    THEN <<Cond("Price", "$lte", "", f.max_price[1])>> ELSE <<>>)
                \o (IF f.min_price # None
                    THEN <<Cond("Price", "$gte", "", f.min_price[1])>> ELSE <<>>)
    IN  IF Len(conditions) = 0 THEN EmptyWhere
        ELSE IF Len(conditions) = 1 THEN [kind |-> "single", conds |-> conditions]
        ELSE [kind |-> "and", conds |-> conditions]

\* C6: the predicate build_chroma_where compiles holds exactly one condition
\* per field that is not None, a falsy value such as a price of 0 included:
\* empty for none, the bare condition for one, an AND for two or more.
C6_OnePerNonNull ==
    (op \in {"text", "image"} /\ pc \in {"query", "retry", "fetch", "advise"})
        => where_clause = OnePerNonNull(filters.obj[1])

\* Whether the request issued a completion request for advice.
AdviceRequested == \E i \in 1..Len(completions) : completions[i].purpose = "advice"

\* C7 as stated: a text search that returns no products returns the one
\* fixed no-results message of the Result Composer and asks for no advice
\* completion, on every path to an empty product list.
C7_OneFixedMessage ==
    (op = "text" /\ Returned /\ ret[1].products = <<>>)
        => (ret[1].advice = Fixed(NoProductsMessage) /\ ~AdviceRequested)

\* C7 amended: a text search that returns no products asks for no advice
\* completion and returns a fixed message that depends on the path: the
\* early-return message when the match set is empty, the Result Composer's
\* message when the store holds none of the matched identifiers.
C7_FixedMessagePerPath ==
    (op = "text" /\ Returned /\ ret[1].products = <<>>)
        => /\ ~AdviceRequested
           /\ results = <<>> => ret[1].advice = Fixed(NoMatchMessage)
           /\ results # <<>> => ret[1].advice = Fixed(NoProductsMessage)

\* C7 witness: the index matched identifiers, the store held none of them,
\* and text_search returned an empty product list.
C7_Witness ==
    /\ op = "text" /\ Returned
    /\ results # <<>>
    /\ ret[1].products = <<>>
    /\ ret[1].advice = Fixed(NoProductsMessage)

\* C8: when the first query of text_search fails and the unfiltered retry
\* succeeds, text_search returns (no exception) and the filters of the
\* result are the Filter Set parse_query_with_gemini produced for the request.
C8_FiltersKept ==
    (op = "text" /\ pc = "done" /\ Len(queries) = 2 /\ queries[2].ok /\ raised = "")
        => (ret # None /\ ret[1].filters = parse_query_with_gemini(query, FirstOutcome))

\* C8 witness: a conjunctive predicate was rejected, the retry succeeded and
\* the result came back with products.
C8_Witness ==
    /\ op = "text" /\ Returned
    /\ Len(queries) = 2
    /\ queries[1].where.kind = "and" /\ ~queries[1].ok /\ queries[2].ok
    /\ ret[1].products # <<>>

\* C9: the complementary products of get_outfit_recommendations never
\* include the base product and are at most 6.
C9_BaseExcluded ==
    op = "outfit" =>
        /\ product_id \notin Range(products)
        /\ Len(products) <= OutfitLimit
        /\ ret # None =>
              /\ product_id \notin Range(ret[1].products)
              /\ Len(ret[1].products) <= OutfitLimit

\* C9 witness: the index returned the base product among its matches and
\* the recommendation returned other products.
C9_Witness ==
    /\ op = "outfit" /\ Returned
    /\ Str(product_id) \in Range(results)
    /\ ret[1].products # <<>>

\* C10: for a product identifier the store does not hold, no index query and
\* no completion request is issued, and once the lookup has answered the
\* call returns {products: [], advice: "Product not found."} without raising.
C10_NotFound ==
    (op = "outfit" /\ product_id \notin Range(store)) =>
        /\ queries = <<>>
        /\ completions = <<>>
        /\ (pc = "done" /\ raised # "sqlite3")
              => (raised = "" /\ ret = Some(NotFoundResult))

\* C10 witness: a recommendation for an identifier absent from the store
\* has returned the not-found result.
C10_Witness ==
    /\ op = "outfit" /\ pc = "done"
    /\ product_id \notin Range(store)
    /\ ret = Some(NotFoundResult)

\* The outcome of the request's completion for advice failed.
AdviceCompletionFailed ==
    \E i \in 1..Len(completions) :
        completions[i].purpose = "advice" /\ completions[i].outcome.status # "text"

\* C11: when the completion for search advice fails and products matched,
\* text_search returns the templated sentence, which holds the original
\* query and a count equal to the number of products in the result.
C11_TemplateCount ==
    (op = "text" /\ pc = "done" /\ AdviceCompletionFailed) =>
        /\ raised = ""
        /\ ret # None
        /\ ret[1].advice.kind = "template"
        /\ ret[1].advice.query = query
        /\ ret[1].advice.count = Len(ret[1].products)

\* C12: under every interleaving of the worker threads each client is
\* constructed at most once, and every call of a getter returns that one
\* instance.
C12_ConstructedOnce ==
    \A f \in Getters :
        /\ built[f] <= 1
        /\ \A t1, t2 \in Threads :
              (threads[t1].got[f] # 0 /\ threads[t2].got[f] # 0)
                  => threads[t1].got[f] = threads[t2].got[f]

\* User and assistant turns alternate, starting with a user turn, and every
\* user turn has its assistant turn.
Alternating(conv) ==
    /\ Len(conv) % 2 = 0
    /\ \A i \in 1..Len(conv) :
          conv[i].role = IF i % 2 = 1 THEN "user" ELSE "assistant"

\* C13: the stored conversation always alternates user and assistant turns;
\* an answered text search with a non-empty query has appended the query as
\* a user turn and the returned advice as an assistant turn, a refused text
\* search, an image search and a recommendation have appended nothing, and
\* clear has left the conversation empty.
C13_Conversation ==
    /\ Alternating(Conversation(cookie))
    /\ handler.pc = "done" =>
          CASE handler.route = "search" /\ handler.query # "" ->
                  Conversation(cookie) =
                      Conversation(handler.loaded)
                          \o <<Turn("user", handler.query),
                               Turn("assistant", handler.advice)>>
            [] handler.route = "clear" -> Conversation(cookie) = <<>>
            [] OTHER -> cookie = handler.loaded

====
